---- MODULE Spec2Model ----
(***************************************************************************)
(* Verification model of three components of the repository:               *)
(*   - TagClosing (the auto-closing-tag assistant of the TypeScript        *)
(*     extension): a debounce timer, one cancellable jsxClosingTag         *)
(*     request, a guarded snippet insertion;                               *)
(*   - DiagnosticsManager (extensions/typescript/src/features/             *)
(*     diagnostics.ts): two per-file mappings merged into one published    *)
(*     collection;                                                         *)
(*   - BreadcrumbsControl and BreadcrumbsPicker (vs/workbench/browser/     *)
(*     parts/editor): selection routing, the picker shown in the context   *)
(*     view, its one pick-or-dismiss event, showing and hiding, the        *)
(*     items rendered from the breadcrumbs model, and the FileRenderer's   *)
(*     fuzzy scores of a file picker's rows.                               *)
(* The host (timers, the language service, the editor window) is the       *)
(* environment: it fires timers, completes requests, changes documents     *)
(* and the active editor in any order, one handler at a time.              *)
(***************************************************************************)
EXTENDS Integers, Sequences, FiniteSets

\* ------------------------------------------------------------------------
\* Bounds of the model
\* ------------------------------------------------------------------------

\* how many non-empty change batches the documents receive in one behaviour
\* (each is a new document version, and arms one debounce timer at most)
MaxEdits == 3
\* the longest diagnostic list handed to a DiagnosticsManager receive call
MaxDiagLen == 1
\* how many pickers a BreadcrumbsControl opens in one behaviour
MaxPickers == 2
\* how many selection events of the pickers wait in setTimeout at a time
MaxDeferred == 1
\* how many rows the tree of a file picker shows
MaxRows == 3
\* how deep the symbol chain at the cursor is
MaxChain == 2

\* ------------------------------------------------------------------------
\* Input sets
\* ------------------------------------------------------------------------

\* documents of the window; "virt.tsx" is one whose uri the client cannot
\* turn into a file path
Documents == {"a.tsx", "b.tsx", "virt.tsx"}
NoEditor == "noEditor"
NoPath == "noPath"
Undefined == 0

Chars == {">", "/", "a"}
NoChar == "undefined"
TextLengths == 0..1
LongTextLengths == 0..2
TextsOf(lengths) == UNION {[1..n -> Chars] : n \in lengths}
Lines == {0}
Columns == {0}
RangeLengths == {0, 1}
BatchLengths == 0..1
LongBatchLengths == 0..2
CursorColumns == {1, 2}

Position(l, c) == [line |-> l, character |-> c]

\* vscode.TextDocumentContentChangeEvent: range.start, rangeLength, text
ChangesOf(texts) ==
  {[rangeStart |-> Position(l, c), rangeLength |-> rl, text |-> t] :
     l \in Lines, c \in Columns, rl \in RangeLengths, t \in texts}

BatchesOf(lengths, texts) == UNION {[1..n -> ChangesOf(texts)] : n \in lengths}

\* the change batches of the protocol specifications: at most one change of
\* at most one character
Batches == BatchesOf(BatchLengths, TextsOf(TextLengths))
\* the change batches of the edit specification: at most one change of up
\* to two characters
EditBatches == BatchesOf(BatchLengths, TextsOf(LongTextLengths))
\* the change batches of the trigger specification: up to two changes of up
\* to two characters
LongBatches == BatchesOf(LongBatchLengths, TextsOf(LongTextLengths))

\* editor.selections.map(s => s.active): one or two cursors
CursorPositions == {Position(l, c) : l \in Lines, c \in CursorColumns}
SelectionSets == {s \in SUBSET CursorPositions : Cardinality(s) \in {1, 2}}

\* what client.execute('jsxClosingTag', ...) delivers to the continuation
Results == {"throw", "noResponse", "noBody", "body"}

TimerIds == 1..MaxEdits

\* ------------------------------------------------------------------------
\* State
\* ------------------------------------------------------------------------

VARIABLES
  \* TagClosing fields
  disposed,          \* _disposed
  timeout,           \* _timeout: a timer handle, or Undefined
  cancel,            \* _cancel: a token source, or Undefined
  listening,         \* the onDidChangeTextDocument listener in _disposables
  \* the host
  timers,            \* the timers that are pending, with their closures
  requests,          \* the jsxClosingTag requests awaited by a continuation
  cancelled,         \* the token sources on which cancel() was called
  activeTextEditor,  \* vscode.window.activeTextEditor's document, or NoEditor
  version,           \* document.version of every document
  nextId,            \* the next timer handle setTimeout returns
  \* observations
  sent,              \* per timer handle: the requests its callback issued
  outcome,           \* per timer handle: where its callback ended
  dropped,           \* the active documents in which an insertion that meets the trigger
                     \* condition armed no timer
  insertSnippet,     \* the insertSnippet call of the step just taken, if any
  surfaced,          \* an exception escaped a callback
  event,             \* SpecTrigger: the change event drawn, and what the handler did with it
  \* DiagnosticsManager fields
  syntaxDiagnostics, semanticDiagnostics, currentDiagnostics, validate,
  \* observations
  overridden,        \* files whose published entry was last written by
                     \* configFileDiagnosticsReceived or delete
  called,            \* the DiagnosticsManager call that returned last
  onlyReceives,      \* updateValidate(false) has returned, and every call
                     \* since the last one was a syntax or semantic receive
  \* BreadcrumbsControl fields
  hidden,                    \* domNode has the class 'hidden'
  ckBreadcrumbsVisible,      \* _ckBreadcrumbsVisible
  ckBreadcrumbsActive,       \* _ckBreadcrumbsActive
  cfUseQuickPick,            \* _cfUseQuickPick.value
  breadcrumbsDisposables,    \* _breadcrumbsDisposables: the model with its listener
  breadcrumbsPickerShowing,  \* _breadcrumbsPickerShowing
  \* the editor group, the widget, the context view and the pickers
  activeEditor,      \* _editorGroup.activeEditor
  widgetFocused,     \* the item the widget has focused
  widgetSelection,   \* the item the widget has selected
  widgetDOMFocused,  \* _widget.isDOMFocused()
  contextView,       \* the picker the context view shows, or NoPicker
  pickers,           \* the pickers created so far, in order
  deferred,          \* the selection events waiting in setTimeout
  \* observations
  delivered,         \* per picker: the events its onDidPickElement listener got
  did,               \* the handler that ran last and what it called
  \* the BreadcrumbsModel of the active input and the widget's items
  elements,          \* what model.getElements() returns
  widgetItems,       \* the elements of the items given to _widget.setItems
  \* the tree of a file picker and its FileRenderer
  treeRows,          \* the rows of the tree in navigation order
  scores,            \* _scores: resource -> score
  highlights         \* the updateHighlights call that returned last

tagVars == <<disposed, timeout, cancel, listening, timers, requests, cancelled,
             activeTextEditor, version, nextId, sent, outcome, dropped,
             insertSnippet, surfaced, event>>
diagVars == <<syntaxDiagnostics, semanticDiagnostics, currentDiagnostics,
              validate, overridden, called, onlyReceives>>
crumbVars == <<hidden, ckBreadcrumbsVisible, ckBreadcrumbsActive, cfUseQuickPick,
               breadcrumbsDisposables, breadcrumbsPickerShowing, activeEditor,
               widgetFocused, widgetSelection, widgetDOMFocused, contextView,
               pickers, deferred, delivered, did>>
modelVars == <<elements, widgetItems>>
rendererVars == <<treeRows, scores, highlights>>
vars == <<tagVars, diagVars, crumbVars, modelVars, rendererVars>>

NoInsert == [id |-> 0, document |-> NoEditor, position |-> Position(0, 0),
             selections |-> {}, at |-> {}]
NoEvent == [document |-> NoEditor, changes |-> <<>>, delivered |-> FALSE,
            armed |-> FALSE]

\* lines 16-28: the fields after construction, the listener registered
InitTagClosing ==
  /\ disposed = FALSE
  /\ timeout = Undefined
  /\ cancel = Undefined
  /\ listening = TRUE
  /\ timers = {}
  /\ requests = {}
  /\ cancelled = {}
  /\ version = [d \in Documents |-> 1]
  /\ nextId = 1
  /\ sent = [i \in TimerIds |-> 0]
  /\ outcome = [i \in TimerIds |-> "unused"]
  /\ dropped = {}
  /\ insertSnippet = NoInsert
  /\ surfaced = FALSE

\* ------------------------------------------------------------------------
\* TagClosing (src/unnamed/part_000)
\* ------------------------------------------------------------------------

\* this.client.toPath(document.uri): a file path, or nothing
toPath(document) == IF document = "virt.tsx" THEN NoPath ELSE document

\* text[i] of JavaScript (0-based i = n - 1 is text[n] here); undefined
\* outside the string
CharAt(text, n) == IF n \in 1..Len(text) THEN text[n] ELSE NoChar

\* clearTimeout(handle): the timer of that handle is no longer pending
KeepTimeout(pending, handle) == pending

clearTimeout(pending, handle) == {t \in pending : t.id # handle}

\* this._cancel.cancel(); this._cancel.dispose(): lines 65-69 and 40-44
ForgetToken(tokens, source) == tokens

CancelToken(tokens, source) ==
  IF source # Undefined THEN tokens \cup {source} ELSE tokens

\* lines 71-80: the last change is a pure insertion ending in '>' or '/'
\* whose second-to-last character is not '>'
TriggerAfterClosedTag(lastChange) ==
  LET lastCharacter == CharAt(lastChange.text, Len(lastChange.text))
  IN  ~(lastChange.rangeLength > 0 \/ (lastCharacter # ">" /\ lastCharacter # "/"))

Trigger(lastChange) ==
  LET lastCharacter == CharAt(lastChange.text, Len(lastChange.text))
      secondToLastCharacter == CharAt(lastChange.text, Len(lastChange.text) - 1)
  IN  /\ ~(lastChange.rangeLength > 0 \/ (lastCharacter # ">" /\ lastCharacter # "/"))
      /\ ~(secondToLastCharacter = ">")

\* lines 47-122 up to setTimeout: the fields and the pending timers the
\* handler leaves, and whether it armed a timer (handle nextId).  docVersion
\* is document.version as the handler reads it.  met is an observation kept
\* with each pending timer: the later keystrokes it has met.
onDidChangeTextDocumentTriggerFirst(document, changes, docVersion) ==
  LET returned == [timeout |-> timeout, cancel |-> cancel, timers |-> timers,
                   cancelled |-> cancelled, handled |-> FALSE, armed |-> FALSE]
      lastChange == changes[Len(changes)]
  IN
  IF document # activeTextEditor \/ Len(changes) = 0 THEN returned
  ELSE IF toPath(document) = NoPath THEN returned
  ELSE IF ~Trigger(lastChange) THEN [returned EXCEPT !.handled = TRUE]
  ELSE [timeout |-> nextId, cancel |-> Undefined,
        timers |-> (IF timeout # Undefined
                    THEN clearTimeout(timers, timeout) ELSE timers) \cup
          {[id |-> nextId, document |-> document, version |-> docVersion,
            rangeStart |-> lastChange.rangeStart,
            textLength |-> Len(lastChange.text), met |-> "none"]},
        cancelled |-> CancelToken(cancelled, cancel),
        handled |-> TRUE, armed |-> TRUE]

onDidChangeTextDocumentClearsFirst(document, changes, docVersion) ==
  LET cleared == [timeout |-> timeout, cancel |-> Undefined,
                  timers |-> IF timeout # Undefined
                             THEN clearTimeout(timers, timeout) ELSE timers,
                  cancelled |-> CancelToken(cancelled, cancel),
                  handled |-> FALSE, armed |-> FALSE]
      lastChange == changes[Len(changes)]
  IN
  IF document # activeTextEditor \/ Len(changes) = 0 THEN cleared
  ELSE IF toPath(document) = NoPath THEN cleared
  ELSE IF ~Trigger(lastChange) THEN [cleared EXCEPT !.handled = TRUE]
  ELSE [timeout |-> nextId, cancel |-> Undefined,
        timers |-> cleared.timers \cup
          {[id |-> nextId, document |-> document, version |-> docVersion,
            rangeStart |-> lastChange.rangeStart,
            textLength |-> Len(lastChange.text), met |-> "none"]},
        cancelled |-> cleared.cancelled, handled |-> TRUE, armed |-> TRUE]

onDidChangeTextDocument(document, changes, docVersion) ==
  LET returned == [timeout |-> timeout, cancel |-> cancel, timers |-> timers,
                   cancelled |-> cancelled, handled |-> FALSE, armed |-> FALSE]
  IN
  IF document # activeTextEditor \/ Len(changes) = 0 THEN returned
  ELSE IF toPath(document) = NoPath THEN returned
  ELSE
    LET pending == IF timeout # Undefined THEN clearTimeout(timers, timeout)
                   ELSE timers
        tokens == CancelToken(cancelled, cancel)
        lastChange == changes[Len(changes)]
    IN
    IF ~Trigger(lastChange)
    THEN [timeout |-> timeout, cancel |-> Undefined, timers |-> pending,
          cancelled |-> tokens, handled |-> TRUE, armed |-> FALSE]
    ELSE [timeout |-> nextId, cancel |-> Undefined,
          timers |-> pending \cup
            {[id |-> nextId, document |-> document, version |-> docVersion,
              rangeStart |-> lastChange.rangeStart,
              textLength |-> Len(lastChange.text), met |-> "none"]},
          cancelled |-> tokens, handled |-> TRUE, armed |-> TRUE]

\* a keystroke in the active document: a non-empty batch for it
Keystroke(document, changes) ==
  document = activeTextEditor /\ Len(changes) # 0

\* the trigger condition in the words of the specification: the last
\* change of the batch is a pure insertion whose text ends in '>' or '/' and
\* whose second-to-last character is not '>'
ClaimedTrigger(change) ==
  /\ change.rangeLength = 0
  /\ Len(change.text) >= 1
  /\ change.text[Len(change.text)] \in {">", "/"}
  /\ (Len(change.text) >= 2 => change.text[Len(change.text) - 1] # ">")

ClaimedArms(changes) == Len(changes) > 0 /\ ClaimedTrigger(changes[Len(changes)])

\* the handles of a set of timers
Handles(pending) == {t.id : t \in pending}

\* the observation met of a timer that was pending when the event came
Met(t, document, changes) ==
  IF ~Keystroke(document, changes) \/ t.id \notin Handles(timers) THEN t
  ELSE IF toPath(document) # NoPath THEN [t EXCEPT !.met = "path"]
  ELSE IF t.met = "none" THEN [t EXCEPT !.met = "noPath"]
  ELSE t

RECURSIVE Sum(_, _)
Sum(f, S) == IF S = {} THEN 0
             ELSE LET x == CHOOSE y \in S : TRUE IN f[x] + Sum(f, S \ {x})

\* the non-empty change batches so far: every one made a new version
Edits == Sum(version, Documents) - Cardinality(Documents)

\* The host changes a document and, while the listener is registered
\* (lines 24-27), delivers the change event.  A non-empty batch is a new
\* version of the document.
ChangeEvent(document, changes) ==
  LET docVersion == IF Len(changes) > 0 THEN version[document] + 1
                    ELSE version[document]
      after == IF listening
               THEN onDidChangeTextDocument(document, changes, docVersion)
               ELSE [timeout |-> timeout, cancel |-> cancel, timers |-> timers,
                     cancelled |-> cancelled, handled |-> FALSE, armed |-> FALSE]
  IN
  /\ Len(changes) > 0 => Edits < MaxEdits
  /\ version' = [version EXCEPT ![document] = docVersion]
  /\ timeout' = after.timeout
  /\ cancel' = after.cancel
  /\ cancelled' = after.cancelled
  /\ timers' = {Met(t, document, changes) : t \in after.timers}
  /\ nextId' = IF after.armed THEN nextId + 1 ELSE nextId
  /\ outcome' = [i \in TimerIds |->
       IF after.armed /\ i = nextId THEN "pending"
       ELSE IF i \in Handles(timers) \ Handles(after.timers) THEN "cleared"
       ELSE outcome[i]]
  /\ dropped' = dropped \cup
       (IF listening /\ Keystroke(document, changes) /\ ClaimedArms(changes)
           /\ ~after.armed
        THEN {document} ELSE {})
  /\ insertSnippet' = NoInsert
  /\ UNCHANGED <<disposed, listening, requests, activeTextEditor, sent, surfaced>>

DocumentChanged(document, changes) ==
  /\ ChangeEvent(document, changes)
  /\ UNCHANGED <<event, diagVars, crumbVars, modelVars, rendererVars>>

\* the same step for the event that SpecTrigger has drawn, which notes
\* whether the handler armed a timer
DrawnEventDelivered ==
  /\ ~event.delivered
  /\ ChangeEvent(event.document, event.changes)
  /\ event' = [event EXCEPT !.delivered = TRUE, !.armed = nextId' # nextId]
  /\ UNCHANGED <<diagVars, crumbVars, modelVars, rendererVars>>

\* lines 87-89
AlwaysAbort == TRUE

AbortOnFire == disposed

\* a timer that has fired is no longer pending (setTimeout, not setInterval)
Fired(pending, t) == pending \ {t}

\* lines 84-97: the timer callback up to the await
TimerFires(t) ==
  /\ t \in timers
  /\ timers' = Fired(timers, t)
  /\ timeout' = Undefined
  /\ IF AbortOnFire
     THEN /\ outcome' = [outcome EXCEPT ![t.id] = "aborted"]
          /\ UNCHANGED <<cancel, requests, sent>>
     ELSE /\ cancel' = t.id
          /\ requests' = requests \cup
               {[id |-> t.id, document |-> t.document, version |-> t.version,
                 position |-> Position(t.rangeStart.line,
                                       t.rangeStart.character + t.textLength)]}
          /\ sent' = [sent EXCEPT ![t.id] = @ + 1]
          /\ outcome' = [outcome EXCEPT ![t.id] = "inflight"]
  /\ insertSnippet' = NoInsert
  /\ UNCHANGED event
  /\ UNCHANGED <<disposed, listening, cancelled, activeTextEditor, version,
                 nextId, dropped, surfaced, diagVars, crumbVars, modelVars, rendererVars>>

\* lines 131-136
getInsertionPositionsCoinciding(selections, position) ==
  IF \E p \in selections : p = position
  THEN {p \in selections : p = position} ELSE {position}

getInsertionPositions(selections, position) ==
  IF \E p \in selections : p = position THEN selections ELSE {position}

\* line 116: the response is for the document in front, at its version
FreshAnyVersion(r) == r.document = activeTextEditor

Fresh(r) ==
  /\ r.document = activeTextEditor
  /\ version[activeTextEditor] = r.version

\* lines 96-104: a rejection is caught, nothing leaves the callback
EscapesUncaught(result) == result = "throw"

Escapes(result) == FALSE

\* lines 106-108
IgnoreDisposed == FALSE

DisposedMeanwhile == disposed

\* lines 97-120: the continuation of the timer callback once the request
\* has settled; selections is editor.selections as read at line 132
RequestSettles(r, result, selections) ==
  /\ r \in requests
  /\ requests' = requests \ {r}
  /\ surfaced' = (surfaced \/ Escapes(result))
  /\ LET end ==
       IF result = "throw" THEN "threw"
       ELSE IF result \in {"noResponse", "noBody"} THEN "nobody"
       ELSE IF DisposedMeanwhile THEN "disposed"
       ELSE IF activeTextEditor = NoEditor THEN "noeditor"
       ELSE IF Fresh(r) THEN "inserted" ELSE "stale"
     IN /\ outcome' = [outcome EXCEPT ![r.id] = end]
        /\ insertSnippet' =
             IF end = "inserted"
             THEN [id |-> r.id, document |-> activeTextEditor,
                   position |-> r.position, selections |-> selections,
                   at |-> getInsertionPositions(selections, r.position)]
             ELSE NoInsert
  /\ UNCHANGED event
  /\ UNCHANGED <<disposed, timeout, cancel, listening, timers, cancelled,
                 activeTextEditor, version, nextId, sent, dropped, diagVars, crumbVars, modelVars, rendererVars>>

\* lines 30-45
dispose ==
  LET pending == IF timeout # Undefined THEN clearTimeout(timers, timeout)
                 ELSE timers
  IN
  /\ disposed' = TRUE
  /\ listening' = FALSE
  /\ timers' = pending
  /\ timeout' = Undefined
  /\ outcome' = [i \in TimerIds |->
       IF i \in Handles(timers) \ Handles(pending) THEN "cleared" ELSE outcome[i]]
  /\ cancelled' = CancelToken(cancelled, cancel)
  /\ cancel' = Undefined
  /\ insertSnippet' = NoInsert
  /\ UNCHANGED event
  /\ UNCHANGED <<requests, activeTextEditor, version, nextId, sent, dropped,
                 surfaced, diagVars, crumbVars, modelVars, rendererVars>>

\* the window: another editor, or none, becomes the active one
ActiveEditorChanges(editor) ==
  /\ editor # activeTextEditor
  /\ activeTextEditor' = editor
  /\ insertSnippet' = NoInsert
  /\ UNCHANGED event
  /\ UNCHANGED <<disposed, timeout, cancel, listening, timers, requests,
                 cancelled, version, nextId, sent, outcome, dropped, surfaced,
                 diagVars, crumbVars, modelVars, rendererVars>>

\* ------------------------------------------------------------------------
\* DiagnosticsManager (src/extensions/typescript/src/features/diagnostics.ts)
\* ------------------------------------------------------------------------

Files == {"a.ts", "b.ts"}
SyntaxLists == UNION {[1..n -> {"s1"}] : n \in 0..MaxDiagLen}
SemanticLists == UNION {[1..n -> {"m1"}] : n \in 0..MaxDiagLen}
ConfigLists == UNION {[1..n -> {"c1"}] : n \in 0..MaxDiagLen}

\* Object.create(null), and a cleared DiagnosticCollection
EmptyMap == [k \in {} |-> <<>>]

\* this.client.asUrl(file): the uri the collection is keyed by
asUrl(file) == <<"file", file>>

\* map[key] || []
Get(map, key) == IF key \in DOMAIN map THEN map[key] ELSE <<>>

\* map[key] = value, DiagnosticCollection.set(key, value)
PutIfAbsent(map, key, value) ==
  IF key \in DOMAIN map THEN map
  ELSE [k \in DOMAIN map \cup {key} |-> IF k = key THEN value ELSE map[k]]

Put(map, key, value) ==
  [k \in DOMAIN map \cup {key} |-> IF k = key THEN value ELSE map[k]]

\* DiagnosticCollection.delete(key)
Remove(map, key) == [k \in DOMAIN map \ {key} |-> map[k]]

\* a call of a DiagnosticsManager method with its arguments
\* and the _validate it found
Call(op, file, diagnostics, value, was) ==
  [op |-> op, file |-> file, diagnostics |-> diagnostics, value |-> value,
   was |-> was]

NoCall == Call("none", "none", <<>>, FALSE, TRUE)

\* lines 16-23
InitDiagnosticsManager ==
  /\ syntaxDiagnostics = EmptyMap
  /\ semanticDiagnostics = EmptyMap
  /\ currentDiagnostics = EmptyMap
  /\ validate = TRUE
  /\ overridden = {}
  /\ called = NoCall
  /\ onlyReceives = FALSE

\* lines 53 and 62: semantic first, then syntax
ConcatSyntaxFirst(semantic, syntax) == syntax \o semantic

Concat(semantic, syntax) == semantic \o syntax

\* lines 29-33
reInitialize ==
  /\ currentDiagnostics' = EmptyMap
  /\ syntaxDiagnostics' = EmptyMap
  /\ semanticDiagnostics' = EmptyMap
  /\ overridden' = {}
  /\ called' = Call("reInitialize", "none", <<>>, FALSE, validate)
  /\ onlyReceives' = FALSE
  /\ UNCHANGED <<validate, tagVars, crumbVars, modelVars, rendererVars>>

\* lines 35-45
updateValidateClearsOnChange(value) ==
  /\ called' = Call("updateValidate", "none", <<>>, value, validate)
  /\ onlyReceives' = ~value
  /\ IF validate = value
     THEN UNCHANGED <<syntaxDiagnostics, semanticDiagnostics,
                      currentDiagnostics, validate, overridden>>
     ELSE /\ validate' = value
          /\ syntaxDiagnostics' = EmptyMap
          /\ semanticDiagnostics' = EmptyMap
          /\ currentDiagnostics' = EmptyMap
          /\ overridden' = {}
  /\ UNCHANGED <<tagVars, crumbVars, modelVars, rendererVars>>

updateValidate(value) ==
  /\ called' = Call("updateValidate", "none", <<>>, value, validate)
  /\ onlyReceives' = ~value
  /\ IF validate = value
     THEN UNCHANGED <<syntaxDiagnostics, semanticDiagnostics,
                      currentDiagnostics, validate, overridden>>
     ELSE /\ validate' = value
          /\ IF ~value
             THEN /\ syntaxDiagnostics' = EmptyMap
                  /\ semanticDiagnostics' = EmptyMap
                  /\ currentDiagnostics' = EmptyMap
                  /\ overridden' = {}
             ELSE UNCHANGED <<syntaxDiagnostics, semanticDiagnostics,
                              currentDiagnostics, overridden>>
  /\ UNCHANGED <<tagVars, crumbVars, modelVars, rendererVars>>

\* lines 47-54
syntaxDiagnosticsReceived(file, diagnostics) ==
  /\ called' = Call("syntaxDiagnosticsReceived", file, diagnostics, FALSE, validate)
  /\ UNCHANGED onlyReceives
  /\ IF ~validate
     THEN UNCHANGED <<syntaxDiagnostics, semanticDiagnostics,
                      currentDiagnostics, validate, overridden>>
     ELSE /\ syntaxDiagnostics' = Put(syntaxDiagnostics, file, diagnostics)
          /\ currentDiagnostics' = Put(currentDiagnostics, asUrl(file),
               Concat(Get(semanticDiagnostics, file), diagnostics))
          /\ overridden' = overridden \ {file}
          /\ UNCHANGED <<semanticDiagnostics, validate>>
  /\ UNCHANGED <<tagVars, crumbVars, modelVars, rendererVars>>

\* lines 56-63
semanticDiagnosticsReceived(file, diagnostics) ==
  /\ called' = Call("semanticDiagnosticsReceived", file, diagnostics, FALSE, validate)
  /\ UNCHANGED onlyReceives
  /\ IF ~validate
     THEN UNCHANGED <<syntaxDiagnostics, semanticDiagnostics,
                      currentDiagnostics, validate, overridden>>
     ELSE /\ semanticDiagnostics' = Put(semanticDiagnostics, file, diagnostics)
          /\ currentDiagnostics' = Put(currentDiagnostics, asUrl(file),
               Concat(diagnostics, Get(syntaxDiagnostics, file)))
          /\ overridden' = overridden \ {file}
          /\ UNCHANGED <<syntaxDiagnostics, validate>>
  /\ UNCHANGED <<tagVars, crumbVars, modelVars, rendererVars>>

\* lines 65-67
configFileDiagnosticsGated(file, diagnostics) ==
  /\ called' = Call("configFileDiagnosticsReceived", file, diagnostics, FALSE, validate)
  /\ onlyReceives' = FALSE
  /\ IF ~validate
     THEN UNCHANGED <<currentDiagnostics, overridden>>
     ELSE /\ currentDiagnostics' = Put(currentDiagnostics, asUrl(file), diagnostics)
          /\ overridden' = overridden \cup {file}
  /\ UNCHANGED <<syntaxDiagnostics, semanticDiagnostics, validate, tagVars, crumbVars, modelVars, rendererVars>>

configFileDiagnosticsReceived(file, diagnostics) ==
  /\ currentDiagnostics' = Put(currentDiagnostics, asUrl(file), diagnostics)
  /\ overridden' = overridden \cup {file}
  /\ called' = Call("configFileDiagnosticsReceived", file, diagnostics, FALSE, validate)
  /\ onlyReceives' = FALSE
  /\ UNCHANGED <<syntaxDiagnostics, semanticDiagnostics, validate, tagVars, crumbVars, modelVars, rendererVars>>

\* lines 69-71: delete(file)
DeleteForgetsFile(file) ==
  /\ currentDiagnostics' = Remove(currentDiagnostics, asUrl(file))
  /\ syntaxDiagnostics' = Remove(syntaxDiagnostics, file)
  /\ semanticDiagnostics' = Remove(semanticDiagnostics, file)
  /\ overridden' = overridden \cup {file}
  /\ called' = Call("delete", file, <<>>, FALSE, validate)
  /\ onlyReceives' = FALSE
  /\ UNCHANGED <<validate, tagVars, crumbVars, modelVars, rendererVars>>

Delete(file) ==
  /\ currentDiagnostics' = Remove(currentDiagnostics, asUrl(file))
  /\ overridden' = overridden \cup {file}
  /\ called' = Call("delete", file, <<>>, FALSE, validate)
  /\ onlyReceives' = FALSE
  /\ UNCHANGED <<syntaxDiagnostics, semanticDiagnostics, validate, tagVars, crumbVars, modelVars, rendererVars>>

\* ------------------------------------------------------------------------
\* BreadcrumbsControl (breadcrumbsControl.ts) and BreadcrumbsPicker
\* (breadcrumbsPicker.ts)
\* ------------------------------------------------------------------------

NoPicker == 0
PickerIds == 1..MaxPickers

Range(startLineNumber, startColumn, endLineNumber, endColumn) ==
  [startLineNumber |-> startLineNumber, startColumn |-> startColumn,
   endLineNumber |-> endLineNumber, endColumn |-> endColumn]

NoRange == Range(0, 0, 0, 0)

\* the values that travel as breadcrumb elements, tree rows and picked data,
\* by class; uri is the element's own uri, or that of the document whose
\* outline model owns the symbol
Element(kind, uri, id, selectionRange, isDirectory) ==
  [kind |-> kind, uri |-> uri, id |-> id, selectionRange |-> selectionRange,
   isDirectory |-> isDirectory]

NoElement == Element("undefined", "", "", NoRange, FALSE)
FileElement(uri) == Element("FileElement", uri, "", NoRange, FALSE)
OutlineGroup(id, uri) == Element("OutlineGroup", uri, id, NoRange, FALSE)
OutlineElement(id, uri, selectionRange) ==
  Element("OutlineElement", uri, id, selectionRange, FALSE)
FileStat(uri, isDirectory) == Element("IFileStat", uri, "", NoRange, isDirectory)
Uri(uri) == Element("URI", uri, "", NoRange, FALSE)

Uris == {"/w/lib", "/w/lib/a.ts"}
FileElements == {FileElement("/w/lib/a.ts")}
OutlineGroups == {OutlineGroup("provider", "/w/lib/a.ts")}
OutlineElements == {OutlineElement("f", "/w/lib/a.ts", Range(2, 3, 4, 1))}
TreeElements == OutlineGroups \cup OutlineElements
\* the elements of the items the widget shows
BreadcrumbElements == FileElements \cup TreeElements
FileStats == {FileStat("/w/lib", TRUE), FileStat("/w/lib/a.ts", FALSE)}

\* IBreadcrumbsItemEvent.payload
Payload(kind, metaKey) == [kind |-> kind, metaKey |-> metaKey]
Payloads == {Payload("Payload_Reveal", FALSE), Payload("Payload_Pick", FALSE),
             Payload("undefined", FALSE), Payload("StandardMouseEvent", FALSE),
             Payload("StandardMouseEvent", TRUE)}
ItemEvents == [item : BreadcrumbElements \cup {NoElement}, payload : Payloads]

\* _editorGroup.activeEditor: none, one without a resource, one with
NoInput == "undefined"
NoResource == "noResource"
EditorInputs == {NoInput, NoResource, "/w/lib/a.ts"}
getResource(input) == IF input \in Uris THEN input ELSE NoResource

\* _breadcrumbsDisposables: empty, or the model of a resource and its listener
NoModel == "none"

\* ISelectionEvent of the picker's tree: the first selected row and the payload
TreePayloads == {"tree", "didClickOnTwistie", "undefined"}
Rows(picker) ==
  IF picker.ctor = "BreadcrumbsFilePicker" THEN FileStats ELSE TreeElements
SelectionEvents(picker) ==
  [first : Rows(picker) \cup {NoElement}, payload : TreePayloads]

\* ------------------------------------------------------------------------
\* FileRenderer (breadcrumbsPicker.ts lines 137-185)
\* ------------------------------------------------------------------------

\* a row of the file tree: names are sequences of characters
Stat(resource, name) == [resource |-> resource, name |-> name]
NoStat == Stat("undefined", <<>>)
Stats == {Stat("/w/lib/ab", <<"a", "b">>), Stat("/w/lib/ba", <<"b", "a">>),
          Stat("/w/lib/A", <<"A">>)}
Patterns == {<<>>, <<"a">>, <<"b">>, <<"z">>, <<"a", "b">>}

\* the trees of at most MaxRows rows, no row twice
Trees ==
  {rows \in UNION {[1..n -> Stats] : n \in 0..MaxRows} :
     \A i, j \in DOMAIN rows : rows[i] = rows[j] => i = j}

\* a FuzzyScore, or undefined
Score(n) == [defined |-> TRUE, score |-> n]
NoScore == [defined |-> FALSE, score |-> 0]

toLowerCase(c) ==
  IF c = "A" THEN "a" ELSE IF c = "B" THEN "b" ELSE IF c = "F" THEN "f" ELSE c

\* the characters of pattern occur in word in this order, whatever the case
RECURSIVE IsSubsequence(_, _)
IsSubsequence(pattern, word) ==
  IF pattern = <<>> THEN TRUE
  ELSE IF word = <<>> THEN FALSE
  ELSE IF toLowerCase(Head(pattern)) = toLowerCase(Head(word))
  THEN IsSubsequence(Tail(pattern), Tail(word))
  ELSE IsSubsequence(pattern, Tail(word))

\* filters.fuzzyScore: undefined unless the non-empty pattern matches the
\* word; a match is worth one per character and one more at the word's start
fuzzyScore(pattern, word) ==
  IF pattern = <<>> \/ Len(pattern) > Len(word) \/ ~IsSubsequence(pattern, word)
  THEN NoScore
  ELSE Score(Len(pattern)
             + IF toLowerCase(pattern[1]) = toLowerCase(word[1]) THEN 1 ELSE 0)

\* Map.set of _scores (line 177)
SetScore(map, key, score) ==
  [k \in DOMAIN map \cup {key} |-> IF k = key THEN score ELSE map[k]]

\* lines 174-182: the loop over the navigator, from row i on
RECURSIVE Navigate(_, _, _, _, _)
Navigate(rows, pattern, map, topScore, topElement) ==
  IF rows = <<>> THEN [scores |-> map, returned |-> topElement]
  ELSE LET element == Head(rows)
           score == fuzzyScore(pattern, element.name)
           top == ~topScore.defined
                    \/ (score.defined /\ topScore.score < score.score)
       IN  Navigate(Tail(rows), pattern,
                    SetScore(map, element.resource, score),
                    IF top THEN score ELSE topScore,
                    IF top THEN element ELSE topElement)

\* lines 170-184
updateHighlights(rows, pattern) ==
  Navigate(rows, pattern, scores, NoScore, NoStat)

Highlights(pattern, returned) == [pattern |-> pattern, returned |-> returned]
NoHighlights == Highlights(<<>>, NoStat)

InitFileRenderer ==
  /\ treeRows = <<>>
  /\ scores = [k \in {} |-> NoScore]
  /\ highlights = NoHighlights

\* the tree shows other rows (setInput, a refresh, a folder expands)
TreeShows(rows) ==
  /\ rows \in Trees
  /\ rows # treeRows
  /\ treeRows' = rows
  /\ highlights' = NoHighlights
  /\ UNCHANGED <<scores, tagVars, diagVars, crumbVars, modelVars>>

\* the filter text of the tree changes and the tree asks the renderer
UpdateHighlights(pattern) ==
  LET done == updateHighlights(treeRows, pattern)
  IN
  /\ scores' = done.scores
  /\ highlights' = Highlights(pattern, done.returned)
  /\ UNCHANGED <<treeRows, tagVars, diagVars, crumbVars, modelVars>>

\* what a handler called, for the properties
Did(op, revealInEditor, openEditor, quickOpen, rendered, returned) ==
  [op |-> op, revealInEditor |-> revealInEditor, openEditor |-> openEditor,
   quickOpen |-> quickOpen, rendered |-> rendered, returned |-> returned,
   fired |-> <<>>]

NoPayload == Payload("undefined", FALSE)
NoDid == Did("none", <<>>, <<>>, <<>>, FALSE, "none")

\* lines 130-167 of breadcrumbsControl.ts: the control after construction
InitBreadcrumbsControl ==
  /\ hidden = FALSE
  /\ ckBreadcrumbsVisible = FALSE
  /\ ckBreadcrumbsActive = FALSE
  /\ breadcrumbsDisposables = NoModel
  /\ breadcrumbsPickerShowing = FALSE
  /\ widgetFocused = NoElement
  /\ widgetSelection = NoElement
  /\ widgetDOMFocused = FALSE
  /\ contextView = NoPicker
  /\ pickers = <<>>
  /\ deferred = {}
  /\ delivered = [p \in PickerIds |-> 0]
  /\ did = NoDid
  /\ elements = <<>>
  /\ widgetItems = <<>>

\* the part of the state that showing and hiding the context view changes
View(showing, active, shown, created) ==
  [showing |-> showing, active |-> active, contextView |-> shown,
   pickers |-> created]

CurrentView ==
  View(breadcrumbsPickerShowing, ckBreadcrumbsActive, contextView, pickers)

\* lines 287-290: the value _updateCkBreadcrumbsActive sets
updateCkBreadcrumbsActive(showing) == widgetDOMFocused \/ showing

\* lines 280-283
onHideKeepsShowing(view) == view

onHide(view) ==
  [view EXCEPT !.showing = FALSE, !.active = updateCkBreadcrumbsActive(FALSE)]

\* breadcrumbsPicker.ts lines 84-89
PickerDisposeForgotten(picker) == picker

PickerDispose(picker) == [picker EXCEPT !.disposed = TRUE]

\* IContextViewService.hideContextView: the delegate's onHide, then what its
\* render returned is disposed
hideContextView(view) ==
  IF view.contextView = NoPicker THEN view
  ELSE LET hid == onHide(view)
       IN  [hid EXCEPT !.contextView = NoPicker,
                       !.pickers[view.contextView] = PickerDispose(@)]

\* lines 263-279: render creates the picker of the element's kind
render(view, element) ==
  LET res == [ctor |-> IF element.kind = "FileElement"
                       THEN "BreadcrumbsFilePicker"
                       ELSE "BreadcrumbsOutlinePicker",
              input |-> element, disposed |-> FALSE]
  IN  [view EXCEPT !.pickers = Append(view.pickers, res),
                   !.showing = TRUE,
                   !.active = updateCkBreadcrumbsActive(TRUE)]

\* IContextViewService.showContextView: the view that is shown is hidden
\* first, then the delegate renders and is the one shown
showContextView(view, element) ==
  LET rendered == render(hideContextView(view), element)
  IN  [rendered EXCEPT !.contextView = Len(rendered.pickers)]

\* Range.collapseToStart
collapseToStart(range) ==
  Range(range.startLineNumber, range.startColumn,
        range.startLineNumber, range.startColumn)

\* lines 292-308: the openEditor calls _revealInEditor makes for data
revealInEditorWholeRange(data) ==
  IF data.kind \in {"URI", "FileElement"}
  THEN <<[resource |-> data.uri, selection |-> NoRange]>>
  ELSE IF data.kind = "OutlineElement"
  THEN <<[resource |-> data.uri, selection |-> data.selectionRange]>>
  ELSE <<>>

revealInEditor(data) ==
  IF data.kind = "URI" THEN <<[resource |-> data.uri, selection |-> NoRange]>>
  ELSE IF data.kind = "FileElement"
  THEN <<[resource |-> data.uri, selection |-> NoRange]>>
  ELSE IF data.kind = "OutlineElement"
  THEN <<[resource |-> data.uri,
          selection |-> collapseToStart(data.selectionRange)]>>
  ELSE <<>>

\* lines 310-312
shouldRevealItemOnAnyClick(payload) ==
  payload.kind = "Payload_Reveal" \/ payload.kind = "StandardMouseEvent"

shouldRevealItem(payload) ==
  payload.kind = "Payload_Reveal"
    \/ (payload.kind = "StandardMouseEvent" /\ payload.metaKey)

\* the calls of a sequence of calls of _revealInEditor
RECURSIVE OpenEditors(_)
OpenEditors(calls) ==
  IF calls = <<>> THEN <<>>
  ELSE revealInEditor(Head(calls)) \o OpenEditors(Tail(calls))

\* what a handler leaves: the view, the widget's focus and selection, and
\* the calls it made
Left(view, focused, selection, reveals, quickOpen, rendered) ==
  [view |-> view, focused |-> focused, selection |-> selection,
   reveals |-> reveals, quickOpen |-> quickOpen, rendered |-> rendered]

\* lines 234-285: _onSelectEvent, the widget having selected the event's item;
\* setSelection(undefined) at 245 and 253 comes back as an event without an
\* item, which returns at 235-237
onSelectEvent(itemEvent, focused) ==
  LET element == itemEvent.item
      returned == Left(CurrentView, focused, itemEvent.item, <<>>, <<>>, FALSE)
  IN
  IF itemEvent.item = NoElement THEN returned
  ELSE IF shouldRevealItem(itemEvent.payload)
  THEN Left(CurrentView, NoElement, NoElement, <<element>>, <<>>, FALSE)
  ELSE IF cfUseQuickPick
  THEN Left(CurrentView, NoElement, NoElement, <<>>,
            <<IF element \in TreeElements THEN "@" ELSE "">>, FALSE)
  ELSE Left(showContextView(CurrentView, element), focused, itemEvent.item,
            <<>>, <<>>, TRUE)

\* a handler's result becomes the state
Leaves(left) ==
  /\ breadcrumbsPickerShowing' = left.view.showing
  /\ ckBreadcrumbsActive' = left.view.active
  /\ contextView' = left.view.contextView
  /\ pickers' = left.view.pickers
  /\ widgetFocused' = left.focused
  /\ widgetSelection' = left.selection

\* the widget selects an item (a click, or setSelection of a command at
\* lines 363 and 376) and fires onDidSelectItem (line 156)
SelectItem(itemEvent) ==
  LET left == onSelectEvent(itemEvent, widgetFocused)
  IN
  /\ left.rendered => Len(pickers) < MaxPickers
  /\ Leaves(left)
  /\ did' = Did("onSelectEvent", left.reveals,
                OpenEditors(left.reveals), left.quickOpen, left.rendered, "none")
  /\ UNCHANGED <<hidden, ckBreadcrumbsVisible, cfUseQuickPick,
                 breadcrumbsDisposables, activeEditor, widgetDOMFocused,
                 deferred, delivered, tagVars, diagVars, modelVars, rendererVars>>

\* lines 228-232: the widget focuses an item and fires onDidFocusItem (line
\* 157); with a picker showing the item is selected, without a payload
FocusItem(item) ==
  LET itemEvent == [item |-> item, payload |-> NoPayload]
      left == IF item # NoElement /\ breadcrumbsPickerShowing
              THEN onSelectEvent(itemEvent, item)
              ELSE Left(CurrentView, item, widgetSelection, <<>>, <<>>, FALSE)
  IN
  /\ item # widgetFocused
  /\ left.rendered => Len(pickers) < MaxPickers
  /\ Leaves(left)
  /\ did' = Did("onFocusEvent", left.reveals,
                OpenEditors(left.reveals), left.quickOpen, left.rendered, "none")
  /\ UNCHANGED <<hidden, ckBreadcrumbsVisible, cfUseQuickPick,
                 breadcrumbsDisposables, activeEditor, widgetDOMFocused,
                 deferred, delivered, tagVars, diagVars, modelVars, rendererVars>>

\* lines 267-274: the control's listener of onDidPickElement
onDidPickElementKeepsView(data) ==
  Left(CurrentView, NoElement, NoElement,
       IF data # NoElement THEN <<data>> ELSE <<>>, <<>>, FALSE)

onDidPickElement(data) ==
  Left(hideContextView(CurrentView), NoElement, NoElement,
       IF data # NoElement THEN <<data>> ELSE <<>>, <<>>, FALSE)

\* Emitter.fire of the picker's _onDidPickElement: the listener runs unless
\* the emitter is disposed (breadcrumbsPicker.ts line 86)
fire(p, data, op) ==
  IF pickers[p].disposed
  THEN /\ did' = [Did(op, <<>>, <<>>, <<>>, FALSE, "none")
                     EXCEPT !.fired = <<data>>]
       /\ UNCHANGED <<breadcrumbsPickerShowing, ckBreadcrumbsActive, contextView,
                      pickers, widgetFocused, widgetSelection, delivered>>
  ELSE LET left == onDidPickElement(data)
       IN  /\ Leaves(left)
           /\ delivered' = [delivered EXCEPT ![p] = @ + 1]
           /\ did' = [Did(op, left.reveals, OpenEditors(left.reveals), <<>>,
                          FALSE, "none") EXCEPT !.fired = <<data>>]

\* breadcrumbsPicker.ts lines 56-57: the picker's dom node loses the focus
PickerBlurs(p) ==
  /\ p \in DOMAIN pickers
  /\ ~pickers[p].disposed
  /\ fire(p, NoElement, "onDidBlur")
  /\ UNCHANGED <<hidden, ckBreadcrumbsVisible, cfUseQuickPick,
                 breadcrumbsDisposables, activeEditor, widgetDOMFocused,
                 deferred, tagVars, diagVars, modelVars, rendererVars>>

\* breadcrumbsPicker.ts line 65: e.payload !== this._tree
isForwardedAlways(e) == TRUE

isForwarded(e) == e.payload # "tree"

\* breadcrumbsPicker.ts lines 64-68: the tree's selection changes; unless the
\* payload is the tree itself the event is handled in a later task
TreeSelectionChanges(p, e) ==
  /\ p \in DOMAIN pickers
  /\ ~pickers[p].disposed
  /\ e \in SelectionEvents(pickers[p])
  /\ deferred' = IF isForwarded(e)
                 THEN deferred \cup {[picker |-> p, e |-> e]}
                 ELSE deferred
  /\ Cardinality(deferred') <= MaxDeferred
  /\ did' = Did("onDidChangeSelection", <<>>, <<>>, <<>>, FALSE, "none")
  /\ UNCHANGED <<hidden, ckBreadcrumbsVisible, ckBreadcrumbsActive,
                 cfUseQuickPick, breadcrumbsDisposables,
                 breadcrumbsPickerShowing, activeEditor, widgetFocused,
                 widgetSelection, widgetDOMFocused, contextView, pickers,
                 delivered, tagVars, diagVars, modelVars, rendererVars>>

onDidChangeSelectionAnyRow(picker, e) ==
  IF e.first # NoElement /\ e.first.kind = "IFileStat"
  THEN Uri(e.first.uri) ELSE e.first

\* breadcrumbsPicker.ts lines 226-232 and 266-274: what _onDidChangeSelection
\* fires, NoElement when it fires nothing
onDidChangeSelection(picker, e) ==
  IF picker.ctor = "BreadcrumbsFilePicker"
  THEN IF e.first # NoElement /\ ~e.first.isDirectory
       THEN Uri(e.first.uri) ELSE NoElement
  ELSE IF e.payload = "didClickOnTwistie" THEN NoElement
  ELSE IF e.first.kind = "OutlineElement" THEN e.first
  ELSE NoElement

\* breadcrumbsPicker.ts line 66: the task of setTimeout runs
DeferredRuns(d) ==
  LET data == onDidChangeSelection(pickers[d.picker], d.e)
  IN
  /\ d \in deferred
  /\ deferred' = deferred \ {d}
  /\ IF data # NoElement
     THEN fire(d.picker, data, "setTimeout")
     ELSE /\ did' = Did("setTimeout", <<>>, <<>>, <<>>, FALSE, "none")
          /\ UNCHANGED <<breadcrumbsPickerShowing, ckBreadcrumbsActive,
                         contextView, pickers, widgetFocused, widgetSelection,
                         delivered>>
  /\ UNCHANGED <<hidden, ckBreadcrumbsVisible, cfUseQuickPick,
                 breadcrumbsDisposables, activeEditor, widgetDOMFocused,
                 tagVars, diagVars, modelVars, rendererVars>>

\* the workbench hides the context view (a click outside it, Escape)
ContextViewHides ==
  /\ contextView # NoPicker
  /\ Leaves(Left(hideContextView(CurrentView), widgetFocused, widgetSelection,
                 <<>>, <<>>, FALSE))
  /\ did' = Did("hideContextView", <<>>, <<>>, <<>>, FALSE, "none")
  /\ UNCHANGED <<hidden, ckBreadcrumbsVisible, cfUseQuickPick,
                 breadcrumbsDisposables, activeEditor, widgetDOMFocused,
                 deferred, delivered, tagVars, diagVars, modelVars, rendererVars>>

\* line 158: the widget gains or loses the dom focus
DOMFocusChanges ==
  /\ widgetDOMFocused' = ~widgetDOMFocused
  /\ ckBreadcrumbsActive' = (widgetDOMFocused' \/ breadcrumbsPickerShowing)
  /\ did' = Did("onDidChangeFocus", <<>>, <<>>, <<>>, FALSE, "none")
  /\ UNCHANGED <<hidden, ckBreadcrumbsVisible, cfUseQuickPick,
                 breadcrumbsDisposables, breadcrumbsPickerShowing, activeEditor,
                 widgetFocused, widgetSelection, contextView, pickers, deferred,
                 delivered, tagVars, diagVars, modelVars, rendererVars>>

\* the user changes the quick-pick preference (line 164)
ConfigurationChanges ==
  /\ cfUseQuickPick' = ~cfUseQuickPick
  /\ did' = Did("onDidChangeConfiguration", <<>>, <<>>, <<>>, FALSE, "none")
  /\ UNCHANGED <<hidden, ckBreadcrumbsVisible, ckBreadcrumbsActive,
                 breadcrumbsDisposables, breadcrumbsPickerShowing, activeEditor,
                 widgetFocused, widgetSelection, widgetDOMFocused, contextView,
                 pickers, deferred, delivered, tagVars, diagVars, modelVars, rendererVars>>

\* what hide and update leave of the visibility state, and what update
\* returns
Shown(class, visible, disposables, returned) ==
  [hidden |-> class, ckBreadcrumbsVisible |-> visible,
   breadcrumbsDisposables |-> disposables, returned |-> returned]

\* lines 187-191
hideKeepsClass == Shown(hidden, FALSE, NoModel, "none")

hide == Shown(TRUE, FALSE, NoModel, "none")

\* lines 183-185
isHidden == hidden

\* lines 193-224
update(input) ==
  IF input = NoInput \/ getResource(input) = NoResource
  THEN IF ~isHidden
       THEN [hide EXCEPT !.returned = "true"]
       ELSE Shown(hidden, ckBreadcrumbsVisible, NoModel, "false")
  ELSE Shown(FALSE, TRUE, getResource(input), "true")

\* the symbols the outline of the document has; a symbol's id stands for its
\* name, and "f" and "F" differ by case only
Symbols == {OutlineElement("f", "/w/lib/a.ts", Range(2, 3, 4, 1)),
            OutlineElement("F", "/w/lib/a.ts", Range(6, 3, 8, 1)),
            OutlineElement("g", "/w/lib/a.ts", Range(9, 1, 9, 9))}
\* the symbol chains at the cursor, outermost first
Chains == UNION {[1..n -> Symbols] : n \in 0..MaxChain}

\* EditorBreadcrumbsModel: the file part and the symbol part of the sequence
fileElements(sequence) ==
  SelectSeq(sequence, LAMBDA element : element.kind = "FileElement")
symbolChain(sequence) ==
  SelectSeq(sequence, LAMBDA element : element.kind = "OutlineElement")

\* the stability policy's comparison: the same names whatever the case
sameNames(chain, previous) ==
  /\ Len(chain) = Len(previous)
  /\ \A i \in DOMAIN chain :
       toLowerCase(chain[i].id) = toLowerCase(previous[i].id)

\* EditorBreadcrumbsModel on an outline change: the sequence to publish
onDidChangeOutline(chain) ==
  IF sameNames(chain, symbolChain(elements))
  THEN elements
  ELSE fileElements(elements) \o chain

\* lines 215-219: the elements of the items the widget gets
updateBreadcrumbsKeepsItems(sequence) == widgetItems

updateBreadcrumbs(sequence) == sequence

\* the outline of the active document changes: the model publishes its
\* sequence and fires onDidUpdate, whose listener is updateBreadcrumbs
OutlineChanges(chain) ==
  /\ breadcrumbsDisposables # NoModel
  /\ chain \in Chains
  /\ elements' = onDidChangeOutline(chain)
  /\ widgetItems' = updateBreadcrumbs(elements')
  /\ did' = Did("onDidUpdate", <<>>, <<>>, <<>>, FALSE,
                IF sameNames(chain, symbolChain(elements))
                THEN "kept" ELSE "recomputed")
  /\ UNCHANGED <<hidden, ckBreadcrumbsVisible, ckBreadcrumbsActive,
                 cfUseQuickPick, breadcrumbsDisposables,
                 breadcrumbsPickerShowing, activeEditor, widgetFocused,
                 widgetSelection, widgetDOMFocused, contextView, pickers,
                 deferred, delivered, tagVars, diagVars, rendererVars>>

\* the group's active editor becomes input (or stays), and the group calls
\* update()
Update(input) ==
  LET shown == update(input)
  IN
  /\ IF shown.breadcrumbsDisposables # NoModel
     THEN /\ elements' = <<FileElement(shown.breadcrumbsDisposables)>>
          /\ widgetItems' = updateBreadcrumbs(elements')
     ELSE UNCHANGED modelVars
  /\ activeEditor' = input
  /\ hidden' = shown.hidden
  /\ ckBreadcrumbsVisible' = shown.ckBreadcrumbsVisible
  /\ breadcrumbsDisposables' = shown.breadcrumbsDisposables
  /\ did' = Did("update", <<>>, <<>>, <<>>, FALSE, shown.returned)
  /\ UNCHANGED <<ckBreadcrumbsActive, cfUseQuickPick, breadcrumbsPickerShowing,
                 widgetFocused, widgetSelection, widgetDOMFocused, contextView,
                 pickers, deferred, delivered, tagVars, diagVars, rendererVars>>

\* the group calls hide()
Hide ==
  /\ hidden' = hide.hidden
  /\ ckBreadcrumbsVisible' = hide.ckBreadcrumbsVisible
  /\ breadcrumbsDisposables' = hide.breadcrumbsDisposables
  /\ did' = Did("hide", <<>>, <<>>, <<>>, FALSE, "none")
  /\ UNCHANGED <<ckBreadcrumbsActive, cfUseQuickPick, breadcrumbsPickerShowing,
                 activeEditor, widgetFocused, widgetSelection, widgetDOMFocused,
                 contextView, pickers, deferred, delivered, tagVars, diagVars, modelVars, rendererVars>>

\* ------------------------------------------------------------------------
\* Specifications
\* ------------------------------------------------------------------------

\* TagClosing in a window whose host acts in any order
Init ==
  /\ InitTagClosing
  /\ activeTextEditor \in Documents \cup {NoEditor}
  /\ event = NoEvent
  /\ InitDiagnosticsManager
  /\ InitBreadcrumbsControl
  /\ InitFileRenderer
  /\ cfUseQuickPick = FALSE
  /\ activeEditor = NoInput

Next ==
  \/ \E document \in Documents, changes \in Batches :
       DocumentChanged(document, changes)
  \/ \E t \in timers : TimerFires(t)
  \/ \E r \in requests, result \in Results, selections \in SelectionSets :
       RequestSettles(r, result, selections)
  \/ dispose
  \/ \E editor \in Documents \cup {NoEditor} : ActiveEditorChanges(editor)

Spec == Init /\ [][Next]_vars

\* the same, with the host's promise that a pending timer fires
SpecLive == Spec /\ WF_vars(\E t \in timers : TimerFires(t))

\* the change handler of a new TagClosing on one event, drawn from the
\* batches of up to two changes of up to two characters
InitTrigger ==
  /\ InitTagClosing
  /\ activeTextEditor \in Documents \cup {NoEditor}
  /\ event \in [document : Documents, changes : LongBatches,
                 delivered : {FALSE}, armed : {FALSE}]
  /\ InitDiagnosticsManager
  /\ InitBreadcrumbsControl
  /\ InitFileRenderer
  /\ cfUseQuickPick = FALSE
  /\ activeEditor = NoInput

NextTrigger == DrawnEventDelivered

SpecTrigger == InitTrigger /\ [][NextTrigger]_vars

\* DiagnosticsManager, its operations called in any order
InitDiag ==
  /\ InitTagClosing
  /\ activeTextEditor = NoEditor
  /\ event = NoEvent
  /\ InitDiagnosticsManager
  /\ InitBreadcrumbsControl
  /\ InitFileRenderer
  /\ cfUseQuickPick = FALSE
  /\ activeEditor = NoInput

NextDiag ==
  \/ reInitialize
  \/ \E value \in BOOLEAN : updateValidate(value)
  \/ \E file \in Files, diagnostics \in SyntaxLists :
       syntaxDiagnosticsReceived(file, diagnostics)
  \/ \E file \in Files, diagnostics \in SemanticLists :
       semanticDiagnosticsReceived(file, diagnostics)
  \/ \E file \in Files, diagnostics \in ConfigLists :
       configFileDiagnosticsReceived(file, diagnostics)
  \/ \E file \in Files : Delete(file)

SpecDiag == InitDiag /\ [][NextDiag]_vars

\* BreadcrumbsControl and its pickers, the widget, the context view, the
\* editor group and the user acting in any order
InitCrumbs ==
  /\ InitTagClosing
  /\ activeTextEditor = NoEditor
  /\ event = NoEvent
  /\ InitDiagnosticsManager
  /\ InitBreadcrumbsControl
  /\ InitFileRenderer
  /\ cfUseQuickPick \in BOOLEAN
  /\ activeEditor = NoInput

NextCrumbs ==
  \/ \E e \in ItemEvents : SelectItem(e)
  \/ \E item \in BreadcrumbElements \cup {NoElement} : FocusItem(item)
  \/ \E p \in PickerIds : PickerBlurs(p)
  \/ ContextViewHides
  \/ DOMFocusChanges
  \/ ConfigurationChanges

SpecCrumbs == InitCrumbs /\ [][NextCrumbs]_vars

\* the pickers a BreadcrumbsControl opens, with their trees
InitPick ==
  /\ InitTagClosing
  /\ activeTextEditor = NoEditor
  /\ event = NoEvent
  /\ InitDiagnosticsManager
  /\ InitBreadcrumbsControl
  /\ InitFileRenderer
  /\ cfUseQuickPick = FALSE
  /\ activeEditor = NoInput

NextPick ==
  \/ \E e \in ItemEvents : SelectItem(e)
  \/ \E p \in PickerIds : PickerBlurs(p)
  \/ \E p \in PickerIds :
       \E e \in [first : FileStats \cup TreeElements \cup {NoElement},
                 payload : TreePayloads] : TreeSelectionChanges(p, e)
  \/ \E d \in deferred : DeferredRuns(d)
  \/ ContextViewHides

SpecPick == InitPick /\ [][NextPick]_vars

\* BreadcrumbsControl as the editor group shows and hides it
InitShow ==
  /\ InitTagClosing
  /\ activeTextEditor = NoEditor
  /\ event = NoEvent
  /\ InitDiagnosticsManager
  /\ InitBreadcrumbsControl
  /\ InitFileRenderer
  /\ cfUseQuickPick \in BOOLEAN
  /\ activeEditor \in EditorInputs

NextShow ==
  \/ \E input \in EditorInputs : Update(input)
  \/ Hide
  \/ \E item \in BreadcrumbElements \cup {NoElement} : FocusItem(item)
  \/ DOMFocusChanges
  \/ ConfigurationChanges

SpecShow == InitShow /\ [][NextShow]_vars

\* TagClosing with an editor in front that stays: edits of up to two
\* characters, the timer and the request
InitEdit ==
  /\ InitTagClosing
  /\ activeTextEditor \in Documents
  /\ event = NoEvent
  /\ InitDiagnosticsManager
  /\ InitBreadcrumbsControl
  /\ InitFileRenderer
  /\ cfUseQuickPick = FALSE
  /\ activeEditor = NoInput

NextEdit ==
  \/ \E document \in Documents, changes \in EditBatches :
       DocumentChanged(document, changes)
  \/ \E t \in timers : TimerFires(t)
  \/ \E r \in requests, result \in Results, selections \in SelectionSets :
       RequestSettles(r, result, selections)

SpecEdit == InitEdit /\ [][NextEdit]_vars

\* the control with the model of its active input
InitModel ==
  /\ InitTagClosing
  /\ activeTextEditor = NoEditor
  /\ event = NoEvent
  /\ InitDiagnosticsManager
  /\ InitBreadcrumbsControl
  /\ InitFileRenderer
  /\ cfUseQuickPick = FALSE
  /\ activeEditor = NoInput

NextModel ==
  \/ \E input \in EditorInputs : Update(input)
  \/ Hide
  \/ \E chain \in Chains : OutlineChanges(chain)

SpecModel == InitModel /\ [][NextModel]_vars

\* the FileRenderer of a file picker alone
InitFilter ==
  /\ InitTagClosing
  /\ activeTextEditor = NoEditor
  /\ event = NoEvent
  /\ InitDiagnosticsManager
  /\ InitBreadcrumbsControl
  /\ InitFileRenderer
  /\ cfUseQuickPick = FALSE
  /\ activeEditor = NoInput

NextFilter ==
  \/ \E rows \in Trees : TreeShows(rows)
  \/ \E pattern \in Patterns : UpdateHighlights(pattern)

SpecFilter == InitFilter /\ [][NextFilter]_vars

\* ------------------------------------------------------------------------
\* Properties
\* ------------------------------------------------------------------------

\* the token sources created so far: one per request issued (lines 95-97)
Tokens == {i \in TimerIds : sent[i] > 0}

\* the timer t fires in this step
Fires(t) == outcome[t.id] = "pending" /\ outcome'[t.id] \in {"inflight", "aborted"}

\* the request r settles in this step
Settles(r) == r \in requests /\ r \notin requests'

\* C1: at most one debounce timer is pending and at most one un-cancelled
\* token source exists, the one held in _cancel; while a timer is pending
\* (so whenever one fires and creates a token source) no token source is
\* held and every earlier one has been cancelled.
C1_AtMostOneTimerAndToken ==
  /\ Cardinality(timers) <= 1
  /\ (Tokens \ cancelled) \subseteq {cancel}
  /\ timers # {} => (cancel = Undefined /\ Tokens \subseteq cancelled)

\* a second token source is held after an earlier one was cancelled
C1_Witness ==
  \E i \in TimerIds, j \in TimerIds :
    i # j /\ i \in cancelled /\ cancel = j /\ j \notin cancelled

\* C2: a response leads to insertSnippet only if, when it is processed, the
\* instance is not disposed, there is an active editor, its document is the
\* triggering document and that document is at the version recorded at the
\* triggering edit.
C2_StaleResponseNeverInserts ==
  [][insertSnippet' # NoInsert =>
       \E r \in requests :
         /\ r.id = insertSnippet'.id
         /\ Settles(r)
         /\ ~disposed
         /\ activeTextEditor # NoEditor
         /\ activeTextEditor = r.document
         /\ version[r.document] = r.version]_vars

\* a response with a body was discarded because the document had moved on
C2_Witness == \E i \in TimerIds : outcome[i] = "stale"

\* C3 as stated: a timer that a later keystroke in the active document has
\* met while it was pending never fires, whatever that document is.
C3_AnyKeystrokePreempts ==
  [][\A t \in timers : t.met # "none" => ~Fires(t)]_vars

\* C3, amended: a keystroke in the active document, when that document has a
\* file path, leaves no earlier timer pending; a cleared timer stays cleared
\* and never issues a request; a timer issues at most one request, the
\* timer that issues one is the one armed by the last keystroke that armed
\* any, and it does issue it unless it is cleared in its turn.
C3_ResolvedKeystrokePreempts ==
  /\ [](\A t \in timers : t.met # "path")
  /\ \A i \in TimerIds :
       (outcome[i] = "pending") ~> (outcome[i] \in {"cleared", "inflight"})
  /\ [](\A i \in TimerIds :
          sent[i] <= 1 /\ (outcome[i] = "cleared" => sent[i] = 0))
  /\ [][/\ \A t \in timers : t.met = "path" => ~Fires(t)
        /\ \A i \in TimerIds : outcome[i] = "cleared" => outcome'[i] = "cleared"
        /\ \A t \in timers : Fires(t) => (t.id = timeout /\ t.id = nextId - 1)]_vars

\* of two keystrokes the first was cleared without a request and the second
\* has sent its request
C3_Witness ==
  /\ ~disposed
  /\ \E i \in TimerIds, j \in TimerIds :
       i < j /\ outcome[i] = "cleared" /\ sent[i] = 0 /\ sent[j] = 1

\* C4: the response of a request whose token was cancelled never leads to
\* insertSnippet.
C4_CancelledResponseIgnored ==
  [][insertSnippet' # NoInsert => insertSnippet'.id \notin cancelled]_vars

\* C5: once disposed, no timer is pending, no token source is held and none
\* is un-cancelled, the listener is gone; from then on no request is issued
\* and no snippet is inserted.
C5_NothingAfterDispose ==
  /\ [](disposed =>
          /\ timers = {}
          /\ timeout = Undefined
          /\ cancel = Undefined
          /\ Tokens \subseteq cancelled
          /\ ~listening)
  /\ [][disposed => (sent' = sent /\ insertSnippet' = NoInsert)]_vars

\* a response with a body arrived after dispose() and was dropped
C5_Witness == disposed /\ \E i \in TimerIds : outcome[i] = "disposed"

\* the part of C6 after the timer is armed: a pending timer fires and
\* issues its request unless a change to the active document or dispose()
\* clears it first; it issues one request at most; when that request
\* settles with a body while the instance is not disposed and the
\* triggering document is active at the recorded version, that step inserts
\* the snippet, and a callback that has ended does not run again.
TimerFiresAndInsertsOnce ==
  /\ \A i \in TimerIds :
       (outcome[i] = "pending") ~> (sent[i] = 1 \/ outcome[i] = "cleared")
  /\ [](\A i \in TimerIds : sent[i] <= 1)
  /\ [][\A r \in requests :
          /\ (/\ Settles(r)
              /\ outcome'[r.id] \notin {"threw", "nobody"}
              /\ ~disposed
              /\ activeTextEditor = r.document
              /\ version[r.document] = r.version)
             => (insertSnippet' # NoInsert /\ insertSnippet'.id = r.id)
          /\ Settles(r) => outcome'[r.id] \notin {"pending", "inflight"}]_vars
  /\ [][\A i \in TimerIds :
          outcome[i] \notin {"unused", "pending", "inflight"}
            => outcome'[i] = outcome[i]]_vars

\* C6 as stated: every insertion in the active document that meets the
\* trigger condition arms the timer, and the timer then fires and inserts
\* once.
C6_QualifyingInsertionServed ==
  /\ [](dropped = {})
  /\ TimerFiresAndInsertsOnce

\* C6, amended: every insertion that meets the trigger condition in an active
\* document with a file path arms the timer, and the timer then fires and
\* inserts once.
C6_QualifyingInsertionWithPathServed ==
  /\ [](\A document \in dropped : toPath(document) = NoPath)
  /\ TimerFiresAndInsertsOnce

\* a request was answered with a body and the snippet inserted
C6_Witness == \E i \in TimerIds : outcome[i] = "inserted" /\ sent[i] = 1

\* C7 as stated: a batch delivered for the active document arms a timer
\* exactly when its last change meets the condition.
C7_ArmsIffLastChange ==
  (event.delivered /\ event.document = activeTextEditor)
    => (event.armed <=> ClaimedArms(event.changes))

\* C7, amended: a batch delivered for the active document, when that
\* document has a file path, arms a timer exactly when its last change
\* meets the condition.
C7_ArmsIffLastChangeAndPath ==
  (event.delivered /\ event.document = activeTextEditor
     /\ toPath(event.document) # NoPath)
    => (event.armed <=> ClaimedArms(event.changes))

\* a batch of two changes armed a timer although its first change is a
\* replacement
C7_Witness ==
  /\ event.delivered /\ event.armed
  /\ Len(event.changes) = 2
  /\ event.changes[1].rangeLength > 0

\* C8 as stated: the snippet goes to the triggering position and to the
\* cursors that coincide with it, to no cursor elsewhere.
C8_OnlyCoincidingCursors ==
  insertSnippet # NoInsert =>
    insertSnippet.at = {insertSnippet.position}
      \cup {p \in insertSnippet.selections : p = insertSnippet.position}

\* C8, amended: the snippet goes to every active cursor when one of them is
\* at the triggering position, and to the triggering position alone
\* otherwise.
C8_AllCursorsWhenOneCoincides ==
  insertSnippet # NoInsert =>
    /\ (insertSnippet.position \in insertSnippet.selections
          => insertSnippet.at = insertSnippet.selections)
    /\ (insertSnippet.position \notin insertSnippet.selections
          => insertSnippet.at = {insertSnippet.position})

\* a snippet was inserted with two cursors, one of them at the triggering
\* position
C8_Witness ==
  /\ insertSnippet # NoInsert
  /\ insertSnippet.position \in insertSnippet.selections
  /\ Cardinality(insertSnippet.selections) = 2

\* C9: a request that rejects or comes back without a body inserts nothing
\* and surfaces nothing, and leaves every field the change handler and the
\* timer callback read as it was.
C9_FailureIsSilent ==
  /\ [](~surfaced)
  /\ [][\A r \in requests :
          (Settles(r) /\ outcome'[r.id] \in {"threw", "nobody"})
            => /\ insertSnippet' = NoInsert
               /\ UNCHANGED <<disposed, listening, timeout, cancel, timers,
                              cancelled, nextId>>]_vars

\* after a failed request a later edit was served and its snippet inserted
C9_Witness ==
  \E i \in TimerIds, j \in TimerIds :
    i < j /\ outcome[i] \in {"threw", "nobody"} /\ outcome[j] = "inserted"

\* what is published for a file, and the merge of its two stored lists
Published(file) == Get(currentDiagnostics, asUrl(file))
Merged(file) == Get(semanticDiagnostics, file) \o Get(syntaxDiagnostics, file)

\* C10 as stated: what is published for a file is always its semantic list
\* followed by its syntax list.
C10_PublishedIsMerge == \A file \in Files : Published(file) = Merged(file)

\* C10, amended: the same for every file whose published entry was not last
\* written by configFileDiagnosticsReceived or delete.
C10_PublishedIsMergeUnlessOverridden ==
  \A file \in Files \ overridden : Published(file) = Merged(file)

\* a file with both lists stored publishes the semantic one first
C10_Witness ==
  \E file \in Files \ overridden : Published(file) = <<"m1", "s1">>

\* the stored lists and the published entry of a file are those of a key
\* that is present
Stores(map, key, list) == key \in DOMAIN map /\ map[key] = list

Receives == {"syntaxDiagnosticsReceived", "semanticDiagnosticsReceived"}

\* C11: with validation enabled, a syntax or semantic receive call has
\* stored its list in its own mapping for the file and has published for the
\* file the stored semantic list followed by the stored syntax list.
C11_ReceiveStoresAndPublishesMerge ==
  (validate /\ called.op \in Receives) =>
    /\ called.op = "syntaxDiagnosticsReceived"
         => Stores(syntaxDiagnostics, called.file, called.diagnostics)
    /\ called.op = "semanticDiagnosticsReceived"
         => Stores(semanticDiagnostics, called.file, called.diagnostics)
    /\ Stores(currentDiagnostics, asUrl(called.file),
              Get(semanticDiagnostics, called.file)
                \o Get(syntaxDiagnostics, called.file))

\* semantic [m1] then syntax [s1]: the syntax call publishes [m1, s1]
C11_Witness ==
  /\ validate
  /\ called = Call("syntaxDiagnosticsReceived", "a.ts", <<"s1">>, FALSE, TRUE)
  /\ Stores(semanticDiagnostics, "a.ts", <<"m1">>)
  /\ Stores(currentDiagnostics, asUrl("a.ts"), <<"m1", "s1">>)

\* C12 as stated: while validation is disabled a syntax or semantic receive
\* call changes neither mapping nor the published set, and after
\* updateValidate(false) followed by such calls only, nothing is published
\* for any file.
C12_DisabledReceiveIsNoOp ==
  /\ [][(~validate /\ called'.op \in Receives) =>
          UNCHANGED <<syntaxDiagnostics, semanticDiagnostics,
                      currentDiagnostics>>]_vars
  /\ [](onlyReceives => \A file \in Files : Published(file) = <<>>)

\* C13 as stated: after updateValidate(false) returns, both mappings and the
\* published set are empty.
C13_DisableClearsEverything ==
  (called.op = "updateValidate" /\ ~called.value) =>
    /\ syntaxDiagnostics = EmptyMap
    /\ semanticDiagnostics = EmptyMap
    /\ currentDiagnostics = EmptyMap

\* updateValidate(true) called while validation is disabled
ReEnables == ~validate /\ called'.op = "updateValidate" /\ called'.value

\* C14: re-enabling validation changes neither mapping nor the published
\* set, and both mappings are empty when it returns, so that what a later
\* receive publishes was received after it; a list then appears for a file
\* only in a receive call for that file (or in a config-file call for it).
C14_ReEnableRepublishesNothing ==
  /\ [][ReEnables =>
          /\ validate'
          /\ UNCHANGED <<syntaxDiagnostics, semanticDiagnostics,
                         currentDiagnostics>>
          /\ syntaxDiagnostics' = EmptyMap
          /\ semanticDiagnostics' = EmptyMap]_vars
  /\ [][\A file \in Files :
          (Published(file)' # Published(file) /\ Published(file)' # <<>>) =>
            /\ called'.file = file
            /\ called'.op \in Receives \cup {"configFileDiagnosticsReceived"}
            /\ called'.op \in Receives =>
                 /\ validate
                 /\ Published(file)' = Merged(file)']_vars

\* validation has just been re-enabled with a config-file list published
\* meanwhile, which stays published
C14_Witness ==
  /\ validate
  /\ called = Call("updateValidate", "none", <<>>, TRUE, FALSE)
  /\ Published("b.ts") = <<"c1">>
  /\ syntaxDiagnostics = EmptyMap
  /\ semanticDiagnostics = EmptyMap

\* C15: configFileDiagnosticsReceived(file, d) has published exactly d for
\* the file and delete(file) has removed the file's entry, with validation
\* enabled or disabled.
C15_ConfigAndDeleteBypassGate ==
  /\ called.op = "configFileDiagnosticsReceived"
       => Stores(currentDiagnostics, asUrl(called.file), called.diagnostics)
  /\ called.op = "delete" => asUrl(called.file) \notin DOMAIN currentDiagnostics

\* a config-file list published while validation is disabled
C15_Witness ==
  /\ ~validate
  /\ called = Call("configFileDiagnosticsReceived", "a.ts", <<"c1">>, FALSE, FALSE)
  /\ Stores(currentDiagnostics, asUrl("a.ts"), <<"c1">>)

\* the pickers that are open: created and not disposed
OpenPickers == {p \in DOMAIN pickers : ~pickers[p].disposed}

\* the breadcrumbsActive key as _updateCkBreadcrumbsActive computes it
ActiveRecomputed == ckBreadcrumbsActive = (widgetDOMFocused \/ breadcrumbsPickerShowing)

\* C16: at most one picker is open; the picker-showing flag is true exactly
\* while a picker is open, and that picker is the one the context view
\* shows; when a picker is rendered the flag is true, when the open picker
\* is hidden and none is rendered the flag is false, and at both the
\* breadcrumbsActive key is (widget dom-focused or picker showing).
C16_OnePickerAndFlagTracksIt ==
  /\ [](/\ Cardinality(OpenPickers) <= 1
        /\ breadcrumbsPickerShowing <=> OpenPickers # {}
        /\ OpenPickers \subseteq {contextView})
  /\ [][did'.rendered => (breadcrumbsPickerShowing' /\ ActiveRecomputed')]_vars
  /\ [][(OpenPickers # {} /\ OpenPickers' = {})
          => (~breadcrumbsPickerShowing' /\ ActiveRecomputed')]_vars

\* a second picker was opened while the first was open: the first is
\* disposed, the second is the one open
C16_Witness ==
  /\ Len(pickers) = 2
  /\ pickers[1].disposed
  /\ OpenPickers = {2}
  /\ did.rendered
  /\ breadcrumbsPickerShowing

\* C17: the listener of a picker gets at most one event, the picker is
\* disposed once it got it, a disposed picker delivers no event, and a
\* focus loss or a deferred selection change navigates only when it delivers
\* the first event of a picker that was open.
C17_AtMostOnePickEvent ==
  /\ [](\A p \in DOMAIN pickers :
          /\ delivered[p] <= 1
          /\ delivered[p] = 1 => pickers[p].disposed)
  /\ [][\A p \in DOMAIN pickers :
          pickers[p].disposed => delivered'[p] = delivered[p]]_vars
  /\ [][(did'.op \in {"onDidBlur", "setTimeout"} /\ did'.revealInEditor # <<>>)
          => \E p \in OpenPickers : delivered[p] = 0 /\ delivered'[p] = 1]_vars

\* a picker has emitted its event and is disposed while a selection change
\* of its tree that would pick a row still waits in setTimeout
C17_Witness ==
  \E d \in deferred :
    /\ pickers[d.picker].disposed
    /\ delivered[d.picker] = 1
    /\ onDidChangeSelection(pickers[d.picker], d.e) # NoElement

\* the reveal gesture in the words of the specification
RevealGesture(payload) ==
  \/ payload.kind = "Payload_Reveal"
  \/ (payload.kind = "StandardMouseEvent" /\ payload.metaKey)

\* C18: a select event is routed by priority: without an item nothing is
\* called; a reveal gesture navigates to the element and opens neither a
\* picker nor quick open, whatever the preference; otherwise with the
\* quick-pick preference quick open is shown ('@' for a symbol, '' for a
\* file) and no picker opens; otherwise a picker opens.
C18_SelectionRouting ==
  [][\A e \in ItemEvents : SelectItem(e) =>
       IF e.item = NoElement
       THEN /\ did'.revealInEditor = <<>> /\ did'.quickOpen = <<>>
            /\ ~did'.rendered
            /\ UNCHANGED <<pickers, contextView, breadcrumbsPickerShowing>>
       ELSE IF RevealGesture(e.payload)
       THEN /\ did'.revealInEditor = <<e.item>> /\ did'.quickOpen = <<>>
            /\ ~did'.rendered
            /\ UNCHANGED <<pickers, contextView, breadcrumbsPickerShowing>>
       ELSE IF cfUseQuickPick
       THEN /\ did'.revealInEditor = <<>>
            /\ Len(did'.quickOpen) = 1
            /\ e.item.kind = "OutlineElement" => did'.quickOpen = <<"@">>
            /\ e.item.kind = "FileElement" => did'.quickOpen = <<"">>
            /\ ~did'.rendered
            /\ UNCHANGED <<pickers, contextView, breadcrumbsPickerShowing>>
       ELSE /\ did'.revealInEditor = <<>> /\ did'.quickOpen = <<>>
            /\ did'.rendered
            /\ Len(pickers') = Len(pickers) + 1
            /\ OpenPickers' = {Len(pickers')}]_vars

\* a reveal gesture with the quick-pick preference set and a picker open:
\* the element was navigated to, quick open was not shown, no picker opened
C18_Witness ==
  /\ did.op = "onSelectEvent"
  /\ cfUseQuickPick
  /\ did.revealInEditor # <<>>
  /\ did.quickOpen = <<>>
  /\ OpenPickers # {}

\* update() found no active editor, or one without a resource
Absent(input) == input = NoInput \/ getResource(input) = NoResource

\* C19: update() with the active editor absent or without a resource
\* releases the model and its listener; a control that was visible is
\* hidden, breadcrumbsVisible is false and true is returned; a control that
\* was hidden stays as it is and false is returned; the second of two such
\* calls in a row returns false.
C19_UpdateWithoutResourceIsIdempotent ==
  /\ [][(did'.op = "update" /\ Absent(activeEditor')) =>
          /\ breadcrumbsDisposables' = NoModel
          /\ IF ~hidden
             THEN hidden' /\ ~ckBreadcrumbsVisible' /\ did'.returned = "true"
             ELSE /\ did'.returned = "false"
                  /\ UNCHANGED <<hidden, ckBreadcrumbsVisible>>]_vars
  /\ [][(/\ did.op = "update" /\ Absent(activeEditor)
          /\ did'.op = "update" /\ Absent(activeEditor'))
          => did'.returned = "false"]_vars

\* update() has returned false for a control that was hidden already
C19_Witness ==
  /\ did.op = "update"
  /\ did.returned = "false"
  /\ Absent(activeEditor)
  /\ hidden
  /\ ~ckBreadcrumbsVisible

\* C20: when an open picker loses the focus its listener gets one event,
\* without data; after it the context view shows nothing, the picker is
\* disposed, the widget has neither focus nor selection, the picker-showing
\* flag is false and no editor was opened.
C20_BlurCancels ==
  /\ [](did.op = "onDidBlur" =>
          /\ contextView = NoPicker
          /\ OpenPickers = {}
          /\ widgetFocused = NoElement
          /\ widgetSelection = NoElement
          /\ ~breadcrumbsPickerShowing
          /\ did.revealInEditor = <<>>
          /\ did.openEditor = <<>>)
  /\ [][did'.op = "onDidBlur" =>
          \E p \in OpenPickers :
            /\ delivered'[p] = delivered[p] + 1
            /\ pickers'[p].disposed]_vars

\* the picker opened on a focused and selected item has lost the focus
C20_Witness ==
  /\ did.op = "onDidBlur"
  /\ Len(pickers) = 1
  /\ pickers[1].disposed
  /\ delivered[1] = 1

\* C21: a picker emits a non-empty pick only for a leaf target. The file
\* picker emits the row's resource URI exactly when the first selected row is
\* a non-directory and nothing when it is a directory or the selection is
\* empty; the outline picker emits the symbol exactly when the first selected
\* row is a symbol and the selection was not caused by a click on the
\* twistie, and nothing otherwise.
C21_PickOnlyLeafTarget ==
  [][\A d \in deferred : DeferredRuns(d) =>
       LET first == d.e.first
       IN  IF pickers[d.picker].ctor = "BreadcrumbsFilePicker"
           THEN did'.fired = IF first # NoElement /\ ~first.isDirectory
                             THEN <<Uri(first.uri)>> ELSE <<>>
           ELSE did'.fired = IF /\ first.kind = "OutlineElement"
                                /\ d.e.payload # "didClickOnTwistie"
                             THEN <<first>> ELSE <<>>]_vars

\* the deferred handler of a file picker has emitted the URI of a file row
C21_Witness ==
  /\ did.op = "setTimeout"
  /\ did.fired = <<Uri("/w/lib/a.ts")>>

\* the editor a navigation to a resource or to a symbol has to open, in the
\* words of the specification
TargetOpened(data, calls) ==
  IF data.kind \in {"URI", "FileElement"}
  THEN calls = <<[resource |-> data.uri, selection |-> NoRange]>>
  ELSE data.kind = "OutlineElement" =>
         calls = <<[resource |-> data.uri,
                    selection |-> Range(data.selectionRange.startLineNumber,
                                        data.selectionRange.startColumn,
                                        data.selectionRange.startLineNumber,
                                        data.selectionRange.startColumn)]>>

\* C22 as stated: a URI or FileElement target opens exactly that resource
\* with no selection, a symbol target opens the owning document with the
\* selection collapsed to the start of the symbol's selection range, and
\* every navigation opens exactly one editor.
C22_EveryNavigationOpensOneEditor ==
  \A i \in DOMAIN did.revealInEditor :
    /\ Len(did.revealInEditor) = 1
    /\ TargetOpened(did.revealInEditor[i], did.openEditor)
    /\ Len(did.openEditor) = 1

\* C22: a URI or FileElement target opens exactly that resource with no
\* selection, a symbol target opens the owning document with the selection
\* collapsed to the start of the symbol's selection range, and every
\* navigation to such a target opens exactly one editor; a navigation to an
\* outline group opens none.
C22_NavigationOpensTarget ==
  \A i \in DOMAIN did.revealInEditor :
    /\ Len(did.revealInEditor) = 1
    /\ TargetOpened(did.revealInEditor[i], did.openEditor)
    /\ Len(did.openEditor) =
         IF did.revealInEditor[i].kind = "OutlineGroup" THEN 0 ELSE 1

\* a navigation to a symbol has opened its document with the collapsed
\* selection
C22_Witness ==
  /\ did.revealInEditor = <<OutlineElement("f", "/w/lib/a.ts", Range(2, 3, 4, 1))>>
  /\ did.openEditor =
       <<[resource |-> "/w/lib/a.ts", selection |-> Range(2, 3, 2, 3)]>>

\* the score updateHighlights found for row i of the tree
RowScore(i) == fuzzyScore(highlights.pattern, treeRows[i].name)

\* C23 as stated: updateHighlights records the fuzzy score of every row of
\* the tree for the pattern and returns a row whose score is defined and the
\* highest of all rows, the earliest such row in navigation order; it never
\* returns a row that does not match the pattern.
C23_BestMatchIsTopScoring ==
  highlights # NoHighlights =>
    /\ \A i \in DOMAIN treeRows :
         /\ treeRows[i].resource \in DOMAIN scores
         /\ scores[treeRows[i].resource] = RowScore(i)
    /\ IF \E i \in DOMAIN treeRows : RowScore(i).defined
       THEN \E i \in DOMAIN treeRows :
              /\ highlights.returned = treeRows[i]
              /\ RowScore(i).defined
              /\ \A j \in DOMAIN treeRows :
                   RowScore(j).defined =>
                     /\ RowScore(j).score <= RowScore(i).score
                     /\ j < i => RowScore(j).score < RowScore(i).score
       ELSE highlights.returned = NoStat

\* C24: an outline change whose symbol chain has the names of the previous
\* chain, compared without case, leaves the sequence the model publishes
\* unchanged; the change notification fires all the same, and on every
\* notification the control renders its items from the published sequence.
C24_StableSequenceStillNotifies ==
  [][\A chain \in Chains : OutlineChanges(chain) =>
       /\ did'.op = "onDidUpdate"
       /\ widgetItems' = elements'
       /\ (/\ Len(chain) = Len(symbolChain(elements))
           /\ \A i \in DOMAIN chain :
                toLowerCase(chain[i].id)
                  = toLowerCase(symbolChain(elements)[i].id))
            => elements' = elements]_vars

\* the outline changed to a chain of the same names and the sequence with
\* the symbol f was kept and rendered
C24_Witness ==
  /\ did.op = "onDidUpdate"
  /\ did.returned = "kept"
  /\ Len(elements) = 2
  /\ elements[2].id = "f"
  /\ widgetItems = elements

\* an edit that does not meet the trigger condition, in the words of the
\* specification: a replacement, an insertion that does not end in '>' or
\* '/', or one that ends in '>>' or '>/'
NonQualifying(changes) ==
  LET change == changes[Len(changes)]
      n == Len(change.text)
  IN  \/ change.rangeLength # 0
      \/ n = 0
      \/ change.text[n] \notin {">", "/"}
      \/ (n >= 2 /\ change.text[n - 1] = ">")

\* C25: every non-empty change batch to the active document whose file path
\* resolves clears the pending debounce timer and cancels and releases the
\* held token whatever the trigger condition says; so an edit that does not
\* qualify, arriving in the debounce window or while a request is in
\* flight, leaves no timer pending and no request un-cancelled.
C25_EditCancelsBeforeTrigger ==
  [][\A document \in Documents, changes \in EditBatches :
       (/\ DocumentChanged(document, changes)
        /\ document = activeTextEditor
        /\ Len(changes) > 0
        /\ toPath(document) # NoPath)
       => /\ Handles(timers) \cap Handles(timers') = {}
          /\ cancel # Undefined => cancel \in cancelled'
          /\ cancel' = Undefined
          /\ NonQualifying(changes) =>
               /\ timers' = {}
               /\ \A r \in requests' : r.id \in cancelled']_vars

\* an edit that does not qualify has cleared the timer of the edit before it
\* while an earlier request is still in flight, cancelled
C25_Witness ==
  /\ timers = {}
  /\ cancel = Undefined
  /\ \E i \in TimerIds : outcome[i] = "cleared" /\ nextId = i + 1
  /\ \E r \in requests : r.id \in cancelled

\* the state of a TagClosing: its fields, the timers it has pending, the
\* requests in flight and the tokens cancelled
TagClosingState ==
  <<disposed, timeout, cancel, listening, Handles(timers), requests,
    cancelled, nextId, sent>>

C27_OwnSelectionNeverPicks ==
  [][/\ \A d \in deferred' : d.e.payload # "tree"
     /\ did'.op = "onDidChangeSelection" =>
          \A p \in OpenPickers : \A e \in SelectionEvents(pickers[p]) :
            TreeSelectionChanges(p, e) =>
              /\ did'.fired = <<>>
              /\ did'.revealInEditor = <<>>
              /\ delivered' = delivered
              /\ pickers' = pickers
              /\ deferred' = IF e.payload = "tree" THEN deferred
                             ELSE deferred \cup {[picker |-> p, e |-> e]}
     /\ did'.rendered =>
          /\ did'.fired = <<>>
          /\ did'.revealInEditor = <<>>
          /\ delivered' = delivered
          /\ deferred' = deferred]_vars

\* the tree of an open picker has changed its selection with the tree as
\* payload: nothing waits in setTimeout and the picker has emitted nothing
C27_Witness ==
  /\ did.op = "onDidChangeSelection"
  /\ deferred = {}
  /\ \E p \in OpenPickers : delivered[p] = 0

\* the published entry of file is the same before and after the step
EntryKept(file) ==
  /\ asUrl(file) \in DOMAIN currentDiagnostics'
       <=> asUrl(file) \in DOMAIN currentDiagnostics
  /\ Get(currentDiagnostics', asUrl(file)) = Get(currentDiagnostics, asUrl(file))

\* delete(file) or configFileDiagnosticsReceived(file, d) is the step
OverridesEntry(file) ==
  \/ Delete(file)
  \/ \E diagnostics \in ConfigLists :
       configFileDiagnosticsReceived(file, diagnostics)

\* the call that returned last was delete or configFileDiagnosticsReceived
\* for file
JustOverridden(file) ==
  /\ called.op \in {"delete", "configFileDiagnosticsReceived"}
  /\ called.file = file

\* C28 as stated: delete(file) and configFileDiagnosticsReceived(file, d)
\* change only the published entry of file and leave both mappings and the
\* validate flag unchanged; so the syntaxDiagnosticsReceived(file, s) that
\* follows publishes the stored semantic list followed by s, and the
\* entries of all other files are untouched.
C28_OverrideTouchesOnlyItsEntry ==
  [][\A file \in Files :
       /\ OverridesEntry(file) =>
            /\ UNCHANGED <<syntaxDiagnostics, semanticDiagnostics, validate>>
            /\ \A other \in Files \ {file} : EntryKept(other)
       /\ \A s \in SyntaxLists :
            (JustOverridden(file) /\ syntaxDiagnosticsReceived(file, s)) =>
              /\ Stores(currentDiagnostics', asUrl(file),
                        Get(semanticDiagnostics, file) \o s)
              /\ \A other \in Files \ {file} : EntryKept(other)]_vars

\* C28, amended: the same, the syntaxDiagnosticsReceived(file, s) that
\* follows publishing the stored semantic list followed by s while
\* validation is enabled.
C28_OverrideTouchesOnlyItsEntryEnabled ==
  [][\A file \in Files :
       /\ OverridesEntry(file) =>
            /\ UNCHANGED <<syntaxDiagnostics, semanticDiagnostics, validate>>
            /\ \A other \in Files \ {file} : EntryKept(other)
       /\ \A s \in SyntaxLists :
            (JustOverridden(file) /\ syntaxDiagnosticsReceived(file, s)) =>
              /\ validate =>
                   Stores(currentDiagnostics', asUrl(file),
                          Get(semanticDiagnostics, file) \o s)
              /\ \A other \in Files \ {file} : EntryKept(other)]_vars

\* delete("a.ts") has returned with validation enabled: the entry of a.ts
\* is gone, its semantic list is still stored and b.ts is still published
C28_Witness ==
  /\ validate
  /\ called.op = "delete" /\ called.file = "a.ts"
  /\ asUrl("a.ts") \notin DOMAIN currentDiagnostics
  /\ Get(semanticDiagnostics, "a.ts") = <<"m1">>
  /\ Published("b.ts") # <<>>

====
